---- MODULE Spec2Model ----
(***************************************************************************)
(* Model of scripts/release.ts: the `release` command line with its three  *)
(* subcommands init, update and publish.  Every execSync call is an        *)
(* external command: ExecSync puts it in flight, and the action named      *)
(* after the command is its completion together with the code that runs    *)
(* up to the next execSync call.  Strings are sequences of tokens.         *)
(***************************************************************************)
EXTENDS Integers, Sequences, FiniteSets, TLC

VARIABLES
  cmd,            \* the subcommand yargs dispatches to
  args,           \* the parsed arguments handed to the handler
  pc,             \* position of the handler
  inflight,       \* external commands spawned and not yet exited
  trace,          \* external commands that exited, in order, with status
  failed,         \* the operation whose failure ended the run, or "none"
  exitCode,       \* process exit code, -1 while the process runs
  errMsg,         \* message of the error thrown out of the handler
  log,            \* messages written by the logger at warn or error
  head,           \* init: const head
  diff,           \* init: const diff
  releaseBranch,  \* init: const releaseBranch
  version,        \* init: const version
  curBranch,      \* git: the checked-out branch
  branches,       \* git: local branches
  commits,        \* git: commits made, with the branch they were made on
  remote,         \* git: branches on origin
  prs,            \* code host: pull requests
  manifest,       \* packages/web-features/package.json version
  bodyFile,       \* scripts/release-pull-description.md contents
  temporaryBodyFile, \* body.md in the pull-request temporary directory
  tmpFiles        \* files written to the diff's temporary directory

vars == <<cmd, args, pc, inflight, trace, failed, exitCode, errMsg, log,
          head, diff, releaseBranch, version, curBranch, branches, commits,
          remote, prs, manifest, bodyFile, temporaryBodyFile, tmpFiles>>

local == <<head, diff, releaseBranch, version>>
world == <<curBranch, branches, commits, remote, prs, manifest, bodyFile,
           temporaryBodyFile, tmpFiles>>

----------------------------------------------------------------------------
(* Strings *)

DigitChars == <<"0", "1", "2", "3", "4", "5", "6", "7", "8", "9">>

RECURSIVE Pad(_, _)
\* n in decimal, left-padded with zeros to w characters, n < 10^w
Pad(n, w) == IF w = 0 THEN <<>>
             ELSE Append(Pad(n \div 10, w - 1), DigitChars[(n % 10) + 1])

RECURSIVE Decimal(_)
\* n in decimal, no padding
Decimal(n) == IF n < 10 THEN <<DigitChars[n + 1]>>
              ELSE Append(Decimal(n \div 10), DigitChars[(n % 10) + 1])

RECURSIVE Join(_, _)
\* Array.prototype.join
Join(parts, sep) ==
  IF Len(parts) = 0 THEN <<>>
  ELSE IF Len(parts) = 1 THEN parts[1]
  ELSE parts[1] \o sep \o Join(Tail(parts), sep)

RECURSIVE Remove(_, _)
\* String.prototype.replace(/[...]/g, ""): drop every character of the class
Remove(s, class) ==
  IF s = <<>> THEN <<>>
  ELSE IF Head(s) \in class THEN Remove(Tail(s), class)
  ELSE <<Head(s)>> \o Remove(Tail(s), class)

RECURSIVE TrimEnd(_)
TrimEnd(s) == IF s # <<>> /\ s[Len(s)] \in {"\n", " "}
              THEN TrimEnd(SubSeq(s, 1, Len(s) - 1)) ELSE s

RECURSIVE TrimStart(_)
TrimStart(s) == IF s # <<>> /\ Head(s) \in {"\n", " "}
                THEN TrimStart(Tail(s)) ELSE s

\* String.prototype.trim
Trim(s) == TrimStart(TrimEnd(s))

----------------------------------------------------------------------------
(* Inputs *)

\* yargs: the three registered commands
Commands == {"init", "update", "publish"}

\* yargs: choices of the semverlevel option
SemverLevels == {"major", "minor", "patch", "prerelease"}

\* values of the pr option of update and publish
PrArgs == {"7", "not-a-number"}

Main == <<"main">>

\* branches the operator may be on when the script starts
StartBranches == {Main, <<"topic">>}

\* manifest versions before the run: [major, minor, patch, pre], pre = <<>>
\* for a release version and <<n>> for the prerelease -n
StartVersions ==
  { [major |-> 0, minor |-> 1, patch |-> 0, pre |-> <<>>],
    [major |-> 1, minor |-> 9, patch |-> 3, pre |-> <<>>],
    [major |-> 2, minor |-> 0, patch |-> 0, pre |-> <<0>>] }

\* contents of the pull-request description template
Templates == { <<"Release checklist", "\n">>, <<"No trailing newline">> }

\* what diff --unified prints when the files differ
DiffOutputs == { <<"--- released", "\n", "+++ prepared", "\n", "-1", "\n", "+2", "\n">> }

\* the largest exit status the model lets a command return
MaxStatus == 2

\* exit statuses of an external command: 0, or a failure
Statuses == 0..MaxStatus

\* exit statuses of diff: 0 same, 1 different, 2 and above trouble
DiffStatuses == 0..MaxStatus

\* instants the system clock may show when the branch is named (UTC fields)
ClockTimes ==
  { [year |-> 1970, month |-> 1, day |-> 1, hour |-> 0, minute |-> 0,
     second |-> 0, ms |-> 0],
    [year |-> 2026, month |-> 11, day |-> 2, hour |-> 9, minute |-> 5,
     second |-> 7, ms |-> 42],
    [year |-> 9999, month |-> 12, day |-> 31, hour |-> 23, minute |-> 59,
     second |-> 59, ms |-> 999],
    [year |-> 10000, month |-> 1, day |-> 1, hour |-> 0, minute |-> 0,
     second |-> 0, ms |-> 0] }

----------------------------------------------------------------------------
(* Pure functions of init *)

\* Date.prototype.toISOString: YYYY-MM-DDTHH:mm:ss.sssZ, and the expanded
\* year (sign and six digits) outside 0..9999
ToISOString(t) ==
  (IF t.year >= 0 /\ t.year <= 9999 THEN Pad(t.year, 4)
   ELSE IF t.year > 9999 THEN <<"+">> \o Pad(t.year, 6)
   ELSE <<"-">> \o Pad(0 - t.year, 6))
  \o <<"-">> \o Pad(t.month, 2) \o <<"-">> \o Pad(t.day, 2)
  \o <<"T">> \o Pad(t.hour, 2) \o <<":">> \o Pad(t.minute, 2)
  \o <<":">> \o Pad(t.second, 2) \o <<".">> \o Pad(t.ms, 3) \o <<"Z">>

\* the character class of the regular expression /[\-T:\.Z]/g
StripClass == {"-", "T", ":", ".", "Z"}

\* `release-${new Date().toISOString().replace(/[\-T:\.Z]/g, "")}`
ReleaseBranchName(t) == <<"release-">> \o Remove(ToISOString(t), StripClass)

\* the version field of package.json as a string
VersionString(v) ==
  Decimal(v.major) \o <<".">> \o Decimal(v.minor) \o <<".">> \o Decimal(v.patch)
  \o (IF v.pre = <<>> THEN <<>> ELSE <<"-">> \o Decimal(v.pre[1]))

\* npm version --no-git-tag-version <level>: the increment npm applies
SemverInc(v, level) ==
  CASE level = "major" ->
         [major |-> IF v.minor # 0 \/ v.patch # 0 \/ v.pre = <<>>
                    THEN v.major + 1 ELSE v.major,
          minor |-> 0, patch |-> 0, pre |-> <<>>]
    [] level = "minor" ->
         [major |-> v.major,
          minor |-> IF v.patch # 0 \/ v.pre = <<>> THEN v.minor + 1 ELSE v.minor,
          patch |-> 0, pre |-> <<>>]
    [] level = "patch" ->
         [major |-> v.major, minor |-> v.minor,
          patch |-> IF v.pre = <<>> THEN v.patch + 1 ELSE v.patch,
          pre |-> <<>>]
    [] OTHER ->
         IF v.pre = <<>>
         THEN [major |-> v.major, minor |-> v.minor, patch |-> v.patch + 1,
               pre |-> <<0>>]
         ELSE [v EXCEPT !.pre = <<v.pre[1] + 1>>]

\* `Increment ${args.semverlevel} version to v${version}`
CommitMessage(level, ver) == <<"Increment ", level, " version to v">> \o ver

\* `<package emoji> Release web-features@${version}`
PullRequestTitle(ver) == <<"U+1F4E6 Release web-features@">> \o ver

\* the code fence of three backquotes, written here with apostrophes
Fence == "'''"

\* [fence + "diff", diff, fence].join("\n")
FencedDiff(d) == Join(<< <<Fence, "diff">>, d, <<Fence>> >>, <<"\n">>)

----------------------------------------------------------------------------
(* The handlers *)

\* the external commands of init, in the order the code reaches them
InitSteps ==
  << "rev_parse", "gh_version", "gh_auth", "jq_version",
     "npm_install", "jq_released", "npm_build", "jq_prepared", "diff",
     "git_branch", "git_checkout", "npm_version", "git_commit", "git_push",
     "gh_pr_create" >>

CommandSteps == {InitSteps[i] : i \in 1..Len(InitSteps)}

\* variant of NextStep: the push is written before the commit
NextStepPushFirst(p) ==
  CASE p = "npm_version" -> "git_push"
    [] p = "git_push" -> "git_commit"
    [] p = "git_commit" -> "gh_pr_create"
    [] p = "gh_pr_create" -> "done"
    [] OTHER -> LET i == CHOOSE k \in 1..Len(InitSteps) : InitSteps[k] = p
                IN InitSteps[i + 1]

\* the position after the command p has returned normally
NextStep(p) ==
  LET i == CHOOSE k \in 1..Len(InitSteps) : InitSteps[k] = p
  IN IF i = Len(InitSteps) THEN "done" ELSE InitSteps[i + 1]

\* positions at which the process has ended
Ended == {"exited", "threw", "done"}

\* variant of Propagate: a failed push is tried again
PropagateRetryPush(p) == IF p = "git_push" THEN "git_push" ELSE "threw"

\* an error thrown by the operation at p is caught nowhere: it leaves the
\* handler
Propagate(p) == "threw"

\* variant of BaseBranchCheck: a base branch other than main ends the run
BaseBranchCheckFatal(h) ==
  [ next |-> IF h # Main THEN "exited" ELSE NextStep("rev_parse"),
    log  |-> IF h # Main THEN {"warn: Base banch is not main"} ELSE {} ]

\* if (head !== "main") logger.warn(...); the checks go on either way
BaseBranchCheck(h) ==
  [ next |-> NextStep("rev_parse"),
    log  |-> IF h # Main THEN {"warn: Base banch is not main"} ELSE {} ]

\* try { execSync("gh version") } catch { logger.error; process.exit(1) }
GhVersionCatch(status) ==
  IF status = 0 THEN [next |-> NextStep("gh_version"), log |-> {}]
  ELSE [next |-> "exited",
        log |-> {"error: gh CLI failed to run. Do you have it installed?"}]

\* variant of GhAuthCatch: the catch clause logs and forgets process.exit(1)
GhAuthCatchNoExit(status) ==
  [next |-> NextStep("gh_auth"),
   log |-> IF status = 0 THEN {}
           ELSE {"error: gh auth status was non-zero.", "error: stderr"}]

\* try { run("gh auth status") } catch { logger.error x2; process.exit(1) }
GhAuthCatch(status) ==
  IF status = 0 THEN [next |-> NextStep("gh_auth"), log |-> {}]
  ELSE [next |-> "exited",
        log |-> {"error: gh auth status was non-zero.", "error: stderr"}]

\* variant of JqVersionCatch: the catch clause logs and forgets process.exit(1)
JqVersionCatchNoExit(status) ==
  [next |-> NextStep("jq_version"),
   log |-> IF status = 0 THEN {}
           ELSE {"error: jq failed to run. Do you have it installed?"}]

\* try { execSync("jq --version") } catch { logger.error; process.exit(1) }
JqVersionCatch(status) ==
  IF status = 0 THEN [next |-> NextStep("jq_version"), log |-> {}]
  ELSE [next |-> "exited",
        log |-> {"error: jq failed to run. Do you have it installed?"}]

\* variant of DiffJsonReturn: no test of err.status, every failure rethrown
DiffJsonReturnNoCatch(status, stdout) ==
  IF status = 0 THEN [threw |-> FALSE, value |-> stdout]
  ELSE [threw |-> TRUE, value |-> <<>>]

\* try { return execSync(diff) } catch (err) { if (err.status === 1) return
\* err.stdout; throw err }
DiffJsonReturn(status, stdout) ==
  IF status = 0 THEN [threw |-> FALSE, value |-> stdout]
  ELSE IF status = 1 THEN [threw |-> FALSE, value |-> stdout]
  ELSE [threw |-> TRUE, value |-> <<>>]

\* variant of PrepareBody: the diff is appended to the template itself
\* and the copy is taken afterwards
PrepareBodyInPlace(template, d) ==
  [ bodyFile |-> template \o FencedDiff(d),
    temporaryBodyFile |-> template \o FencedDiff(d) ]

\* copyFileSync(bodyFile, temporaryBodyFile); appendFileSync(temporaryBodyFile,
\* fenced diff): the two files afterwards
PrepareBody(template, d) ==
  [ bodyFile |-> template, temporaryBodyFile |-> template \o FencedDiff(d) ]

\* what diff prints for each exit status
DiffStdout(status) == IF status = 1 THEN DiffOutputs ELSE {<<>>}

Init ==
  /\ cmd \in Commands
  /\ args \in (IF cmd = "init"
               THEN [semverlevel : SemverLevels, pr : {""}]
               ELSE [semverlevel : {"patch"}, pr : PrArgs])
  /\ pc = (IF cmd = "init" THEN InitSteps[1] ELSE cmd)
  /\ inflight = {}
  /\ trace = <<>>
  /\ failed = "none"
  /\ exitCode = -1
  /\ errMsg = ""
  /\ log = {}
  /\ head = <<>>
  /\ diff = <<>>
  /\ releaseBranch = <<>>
  /\ version = <<>>
  /\ curBranch \in StartBranches
  /\ branches = StartBranches
  /\ commits = <<>>
  /\ remote = {Main}
  /\ prs = {}
  /\ manifest \in StartVersions
  /\ bodyFile \in Templates
  /\ temporaryBodyFile = <<>>
  /\ tmpFiles = {}

\* the handler moves to position p; f names the operation that failed
Goto(p, f, msg) ==
  /\ pc' = p
  /\ failed' = f
  /\ errMsg' = msg
  /\ exitCode' = (IF p \in {"exited", "threw"} THEN 1
                  ELSE IF p = "done" THEN 0 ELSE -1)

\* the command at step exits with status and stdout
Exits(step, status, stdout) ==
  /\ pc = step
  /\ inflight = {step}
  /\ inflight' = inflight \ {step}
  /\ trace' = Append(trace, [step |-> step, status |-> status, stdout |-> stdout])

\* the command at step failed and nothing catches the error
Throws(step) == Goto(Propagate(step), step, "Command failed")

\* execSync(cmd): spawn the command the handler has reached and wait for it
ExecSync ==
  /\ pc \in CommandSteps
  /\ inflight = {}
  /\ inflight' = {pc}
  /\ UNCHANGED <<cmd, args, pc, trace, failed, exitCode, errMsg, log>>
  /\ UNCHANGED <<local, world>>

\* an fs call (mkdtempSync, writeFileSync, readFileSync, copyFileSync,
\* appendFileSync) threw and nothing catches the error
FsThrows(op) == Goto(Propagate(op), op, "fs error")

\* init: git rev-parse --abbrev-ref HEAD, then the base branch check
GitRevParse ==
  \E status \in Statuses :
    LET out == IF status = 0 THEN curBranch \o <<"\n">> ELSE <<>>
        chk == BaseBranchCheck(Trim(out))
    IN /\ Exits("rev_parse", status, out)
       /\ IF status = 0
          THEN /\ head' = Trim(out)
               /\ log' = log \cup chk.log
               /\ Goto(chk.next, "none", "")
          ELSE /\ Throws("rev_parse")
               /\ UNCHANGED <<head, log>>
       /\ UNCHANGED <<cmd, args, diff, releaseBranch, version, world>>

\* init: gh version
GhVersion ==
  \E status \in Statuses :
    LET c == GhVersionCatch(status)
    IN /\ Exits("gh_version", status, <<>>)
       /\ log' = log \cup c.log
       /\ Goto(c.next, IF status = 0 THEN "none" ELSE "gh_version", "")
       /\ UNCHANGED <<cmd, args, local, world>>

\* init: gh auth status
GhAuthStatus ==
  \E status \in Statuses :
    LET c == GhAuthCatch(status)
    IN /\ Exits("gh_auth", status, <<>>)
       /\ log' = log \cup c.log
       /\ Goto(c.next, IF status = 0 THEN "none" ELSE "gh_auth", "")
       /\ UNCHANGED <<cmd, args, local, world>>

\* init: jq --version; then diffJson begins with mkdtempSync
JqVersion ==
  \E status \in Statuses, fsok \in BOOLEAN :
    LET c == JqVersionCatch(status)
    IN /\ Exits("jq_version", status, <<>>)
       /\ log' = log \cup c.log
       /\ IF c.next = "exited" THEN Goto(c.next, "jq_version", "")
          ELSE IF fsok THEN Goto(c.next, "none", "")
          ELSE FsThrows("mkdtempSync")
       /\ UNCHANGED <<cmd, args, local, world>>

\* diffJson: npm install web-features, in the temporary directory
NpmInstall ==
  \E status \in Statuses :
    /\ Exits("npm_install", status, <<>>)
    /\ IF status = 0
       THEN /\ tmpFiles' = tmpFiles \cup {"node_modules/web-features/index.json"}
            /\ Goto(NextStep("npm_install"), "none", "")
       ELSE /\ Throws("npm_install")
            /\ UNCHANGED tmpFiles
    /\ UNCHANGED <<cmd, args, log, local, curBranch, branches, commits, remote,
                   prs, manifest, bodyFile, temporaryBodyFile>>

\* diffJson: jq . on the released index.json, then writeFileSync
JqReleased ==
  \E status \in Statuses, fsok \in BOOLEAN :
    /\ Exits("jq_released", status, IF status = 0 THEN <<"{released}">> ELSE <<>>)
    /\ IF status # 0
       THEN Throws("jq_released") /\ UNCHANGED tmpFiles
       ELSE IF fsok
       THEN /\ tmpFiles' = tmpFiles \cup {"index.released.pretty.json"}
            /\ Goto(NextStep("jq_released"), "none", "")
       ELSE FsThrows("writeFileSync") /\ UNCHANGED tmpFiles
    /\ UNCHANGED <<cmd, args, log, local, curBranch, branches, commits, remote,
                   prs, manifest, bodyFile, temporaryBodyFile>>

\* diffJson: npm run build, in the working tree
NpmBuild ==
  \E status \in Statuses :
    /\ Exits("npm_build", status, <<>>)
    /\ IF status = 0 THEN Goto(NextStep("npm_build"), "none", "")
       ELSE Throws("npm_build")
    /\ UNCHANGED <<cmd, args, log, local, world>>

\* diffJson: jq . on the prepared index.json, then writeFileSync
JqPrepared ==
  \E status \in Statuses, fsok \in BOOLEAN :
    /\ Exits("jq_prepared", status, IF status = 0 THEN <<"{prepared}">> ELSE <<>>)
    /\ IF status # 0
       THEN Throws("jq_prepared") /\ UNCHANGED tmpFiles
       ELSE IF fsok
       THEN /\ tmpFiles' = tmpFiles \cup {"index.prepared.pretty.json"}
            /\ Goto(NextStep("jq_prepared"), "none", "")
       ELSE FsThrows("writeFileSync") /\ UNCHANGED tmpFiles
    /\ UNCHANGED <<cmd, args, log, local, curBranch, branches, commits, remote,
                   prs, manifest, bodyFile, temporaryBodyFile>>

\* diffJson: diff --unified, its catch clause, and back in init the naming
\* of the release branch from the clock
Diff ==
  \E status \in DiffStatuses, now \in ClockTimes :
    \E stdout \in DiffStdout(status) :
      LET r == DiffJsonReturn(status, stdout)
      IN /\ Exits("diff", status, stdout)
         /\ IF r.threw
            THEN /\ Throws("diff")
                 /\ UNCHANGED <<diff, releaseBranch>>
            ELSE /\ diff' = r.value
                 /\ releaseBranch' = ReleaseBranchName(now)
                 /\ Goto(NextStep("diff"), "none", "")
         /\ UNCHANGED <<cmd, args, log, head, version, world>>

\* init: git branch <releaseBranch> <head>
GitBranch ==
  \E status \in Statuses :
    /\ Exits("git_branch", status, <<>>)
    /\ IF status = 0
       THEN /\ branches' = branches \cup {releaseBranch}
            /\ Goto(NextStep("git_branch"), "none", "")
       ELSE /\ Throws("git_branch")
            /\ UNCHANGED branches
    /\ UNCHANGED <<cmd, args, log, local, curBranch, commits, remote, prs,
                   manifest, bodyFile, temporaryBodyFile, tmpFiles>>

\* variant of GitCheckout: the command names head, so the base branch stays
\* checked out
GitCheckoutHead ==
  \E status \in Statuses :
    /\ Exits("git_checkout", status, <<>>)
    /\ IF status = 0
       THEN /\ curBranch' = head
            /\ Goto(NextStep("git_checkout"), "none", "")
       ELSE /\ Throws("git_checkout")
            /\ UNCHANGED curBranch
    /\ UNCHANGED <<cmd, args, log, local, branches, commits, remote, prs,
                   manifest, bodyFile, temporaryBodyFile, tmpFiles>>

\* init: git checkout <releaseBranch>
GitCheckout ==
  \E status \in Statuses :
    /\ Exits("git_checkout", status, <<>>)
    /\ IF status = 0
       THEN /\ curBranch' = releaseBranch
            /\ Goto(NextStep("git_checkout"), "none", "")
       ELSE /\ Throws("git_checkout")
            /\ UNCHANGED curBranch
    /\ UNCHANGED <<cmd, args, log, local, branches, commits, remote, prs,
                   manifest, bodyFile, temporaryBodyFile, tmpFiles>>

\* variant of NpmVersion: the manifest is read before npm has written it
NpmVersionReadsFirst ==
  \E status \in Statuses, fsok \in BOOLEAN :
    /\ Exits("npm_version", status, <<>>)
    /\ IF status # 0
       THEN Throws("npm_version") /\ UNCHANGED <<manifest, version>>
       ELSE /\ manifest' = SemverInc(manifest, args.semverlevel)
            /\ IF fsok
               THEN /\ version' = VersionString(manifest)
                    /\ Goto(NextStep("npm_version"), "none", "")
               ELSE FsThrows("readFileSync") /\ UNCHANGED version
    /\ UNCHANGED <<cmd, args, log, head, diff, releaseBranch, curBranch,
                   branches, commits, remote, prs, bodyFile, temporaryBodyFile,
                   tmpFiles>>

\* init: npm version --no-git-tag-version <semverlevel>, then the manifest
\* is read back and parsed
NpmVersion ==
  \E status \in Statuses, fsok \in BOOLEAN :
    /\ Exits("npm_version", status, <<>>)
    /\ IF status # 0
       THEN Throws("npm_version") /\ UNCHANGED <<manifest, version>>
       ELSE /\ manifest' = SemverInc(manifest, args.semverlevel)
            /\ IF fsok
               THEN /\ version' = VersionString(manifest')
                    /\ Goto(NextStep("npm_version"), "none", "")
               ELSE FsThrows("readFileSync") /\ UNCHANGED version
    /\ UNCHANGED <<cmd, args, log, head, diff, releaseBranch, curBranch,
                   branches, commits, remote, prs, bodyFile, temporaryBodyFile,
                   tmpFiles>>

\* init: git commit --all --message="<commitMessage>"
GitCommit ==
  \E status \in Statuses :
    /\ Exits("git_commit", status, <<>>)
    /\ IF status = 0
       THEN /\ commits' = Append(commits,
                 [branch |-> curBranch,
                  message |-> CommitMessage(args.semverlevel, version)])
            /\ Goto(NextStep("git_commit"), "none", "")
       ELSE /\ Throws("git_commit")
            /\ UNCHANGED commits
    /\ UNCHANGED <<cmd, args, log, local, curBranch, branches, remote, prs,
                   manifest, bodyFile, temporaryBodyFile, tmpFiles>>

\* init: git push --set-upstream origin <releaseBranch>, then the
\* pull-request body is put together in a new temporary directory
GitPush ==
  \E status \in Statuses, fs \in {"ok", "mkdtempSync", "copyFileSync", "appendFileSync"} :
    LET b == PrepareBody(bodyFile, diff)
    IN /\ Exits("git_push", status, <<>>)
       /\ IF status # 0
          THEN Throws("git_push")
               /\ UNCHANGED <<remote, bodyFile, temporaryBodyFile>>
          ELSE /\ remote' = remote \cup {releaseBranch}
               /\ IF fs = "ok"
                  THEN /\ bodyFile' = b.bodyFile
                       /\ temporaryBodyFile' = b.temporaryBodyFile
                       /\ Goto(NextStep("git_push"), "none", "")
                  ELSE /\ FsThrows(fs)
                       /\ bodyFile' = bodyFile
                       /\ temporaryBodyFile' =
                            (IF fs = "appendFileSync" THEN bodyFile
                             ELSE temporaryBodyFile)
       /\ UNCHANGED <<cmd, args, log, local, curBranch, branches, commits, prs,
                      manifest, tmpFiles>>

\* init: gh pr create --title --reviewer --body-file --repo --base --head
GhPrCreate ==
  \E status \in Statuses :
    /\ Exits("gh_pr_create", status, <<>>)
    /\ IF status = 0
       THEN /\ prs' = prs \cup
                 {[title |-> PullRequestTitle(version),
                   reviewer |-> "ddbeck",
                   body |-> temporaryBodyFile,
                   repo |-> "ddbeck/feature-set",
                   base |-> Main,
                   head |-> releaseBranch]}
            /\ Goto(NextStep("gh_pr_create"), "none", "")
       ELSE /\ Throws("gh_pr_create")
            /\ UNCHANGED prs
    /\ UNCHANGED <<cmd, args, log, local, curBranch, branches, commits, remote,
                   manifest, bodyFile, temporaryBodyFile, tmpFiles>>

\* variant of Update: the handler rebuilds instead of throwing
UpdateRebuilds ==
  /\ pc = "update"
  /\ Goto("npm_build", "none", "")
  /\ UNCHANGED <<cmd, args, inflight, trace, log, local, world>>

\* update(args): throw Error("Not implemented")
Update ==
  /\ pc = "update"
  /\ Goto("threw", "update", "Not implemented")
  /\ UNCHANGED <<cmd, args, inflight, trace, log, local, world>>

\* publish(args): throw Error("Not implemented")
Publish ==
  /\ pc = "publish"
  /\ Goto("threw", "publish", "Not implemented")
  /\ UNCHANGED <<cmd, args, inflight, trace, log, local, world>>

Next ==
  \/ ExecSync
  \/ GitRevParse
  \/ GhVersion
  \/ GhAuthStatus
  \/ JqVersion
  \/ NpmInstall
  \/ JqReleased
  \/ NpmBuild
  \/ JqPrepared
  \/ Diff
  \/ GitBranch
  \/ GitCheckout
  \/ NpmVersion
  \/ GitCommit
  \/ GitPush
  \/ GhPrCreate
  \/ Update
  \/ Publish

Spec == Init /\ [][Next]_vars

----------------------------------------------------------------------------
(* Vocabulary of the properties *)

TraceSteps == {trace[i].step : i \in DOMAIN trace}

\* every command spawned so far in this run
Invoked == TraceSteps \cup inflight

\* the command exited the way the handler takes as success
Succeeded(e) == e.status = 0 \/ (e.step = "diff" /\ e.status = 1)

ExitedWith(step, ok) ==
  \E i \in DOMAIN trace : trace[i].step = step /\ (trace[i].status = 0) = ok

MutatingCommands ==
  {"npm_install", "npm_build", "git_branch", "git_checkout", "npm_version",
   "git_commit", "git_push", "gh_pr_create"}

DiffSteps == {"npm_install", "jq_released", "npm_build", "jq_prepared", "diff"}

FsOps == {"mkdtempSync", "writeFileSync", "readFileSync", "copyFileSync",
          "appendFileSync"}

\* nothing outside the process has been changed by the run
NoBranchCreated ==
  /\ branches = StartBranches
  /\ curBranch \in StartBranches
  /\ commits = <<>>
  /\ remote = {Main}
  /\ prs = {}

----------------------------------------------------------------------------
(* C1: in init, when `gh auth status` exits non-zero the process ends with  *)
(* exit code 1 and no mutating command (npm install, npm run build, git     *)
(* branch, git checkout, npm version, git commit, git push, gh pr create)   *)
(* is invoked in that run, so no branch is created.                         *)
C1_AuthFailureHalts ==
  ExitedWith("gh_auth", FALSE) =>
    /\ pc = "exited"
    /\ exitCode = 1
    /\ Invoked \cap MutatingCommands = {}
    /\ NoBranchCreated

C1_Witness ==
  /\ ExitedWith("gh_auth", FALSE)
  /\ ExitedWith("gh_version", TRUE)
  /\ pc = "exited"

(* C2: in diffJson, diff exiting 1 returns its captured stdout as the diff  *)
(* and init goes on to branch creation; any other non-zero status is        *)
(* rethrown and the run ends with no branch created; status 0 returns       *)
(* stdout.                                                                  *)
C2_DiffStatus ==
  \A i \in DOMAIN trace :
    trace[i].step = "diff" =>
      IF trace[i].status \in {0, 1}
      THEN /\ diff = trace[i].stdout
           /\ failed # "diff"
           /\ releaseBranch # <<>>
           /\ (i = Len(trace) /\ inflight = {}) => pc = "git_branch"
      ELSE /\ pc = "threw"
           /\ failed = "diff"
           /\ exitCode = 1
           /\ "git_branch" \notin Invoked
           /\ NoBranchCreated

C2_Witness ==
  /\ \E i \in DOMAIN trace :
       trace[i].step = "diff" /\ trace[i].status = 1 /\ trace[i].stdout # <<>>
  /\ diff # <<>>
  /\ ExitedWith("git_branch", TRUE)
  /\ releaseBranch \in branches

(* C3: update and publish, whatever the argument, end by throwing           *)
(* "Not implemented"; no external command is spawned and no file, branch,   *)
(* manifest, commit, remote or pull request changes.                        *)
C3_NotImplemented ==
  /\ [](cmd \in {"update", "publish"} =>
          /\ trace = <<>>
          /\ inflight = {}
          /\ pc \in {cmd, "threw"}
          /\ pc = "threw" => (errMsg = "Not implemented" /\ exitCode = 1))
  /\ [][(cmd \in {"update", "publish"}) => (world' = world)]_vars

C3_Witness ==
  /\ cmd = "publish"
  /\ args.pr = "not-a-number"
  /\ pc = "threw"
  /\ errMsg = "Not implemented"

(* C4: in every run of init the steps occur in the order preflight checks,  *)
(* diff production, branch creation, checkout, version bump, manifest       *)
(* read-back, commit, push, pull-request creation; a step is started only   *)
(* after every earlier one has completed successfully, and at most one      *)
(* external command is in flight at any time.                               *)
PhaseOf(step) ==
  CASE step \in {"rev_parse", "gh_version", "gh_auth", "jq_version"} -> 1
    [] step \in DiffSteps -> 2
    [] step = "git_branch" -> 3
    [] step = "git_checkout" -> 4
    [] step = "npm_version" -> 5
    [] step = "git_commit" -> 7
    [] step = "git_push" -> 8
    [] OTHER -> 9

AllSteps ==
  {"rev_parse", "gh_version", "gh_auth", "jq_version"} \cup DiffSteps
  \cup {"git_branch", "git_checkout", "npm_version", "git_commit", "git_push",
        "gh_pr_create"}

C4_StrictOrder ==
  /\ Cardinality(inflight) <= 1
  /\ inflight \cap TraceSteps = {}
  /\ \A i, j \in DOMAIN trace : i < j =>
       /\ trace[i].step # trace[j].step
       /\ PhaseOf(trace[i].step) <= PhaseOf(trace[j].step)
       /\ Succeeded(trace[i])
  /\ \A s \in Invoked : \A q \in AllSteps :
       PhaseOf(q) < PhaseOf(s) =>
         \E i \in DOMAIN trace : trace[i].step = q /\ Succeeded(trace[i])
  \* the read-back lies between the bump and the commit
  /\ version # <<>> => ExitedWith("npm_version", TRUE)
  /\ "git_commit" \in Invoked => version = VersionString(manifest)

C4_Witness ==
  /\ pc = "done"
  /\ Len(trace) = Len(InitSteps)
  /\ \A i \in DOMAIN trace : trace[i].step = InitSteps[i]
  /\ prs # {}

(* C5: in init, once a step has failed (the diff tool's status 1 is not a   *)
(* failure) the process has ended with exit code 1: no later step runs, the *)
(* failed step is not run again, and nothing made before the failure        *)
(* (branch, checkout, bumped manifest, commit, pushed branch) is undone.    *)
C5_NoRetryNoRollback ==
  /\ [](/\ failed # "none" => (pc \in {"exited", "threw"} /\ exitCode = 1
                               /\ inflight = {})
        /\ \A i \in DOMAIN trace :
             ~Succeeded(trace[i]) =>
               (i = Len(trace) /\ failed = trace[i].step)
        /\ \A i, j \in DOMAIN trace : i < j => trace[i].step # trace[j].step)
  /\ [][/\ (failed # "none") => FALSE
        /\ (failed' # "none") =>
             /\ branches \subseteq branches'
             /\ remote \subseteq remote'
             /\ prs \subseteq prs'
             /\ Len(commits) <= Len(commits')
             /\ SubSeq(commits', 1, Len(commits)) = commits
             /\ curBranch' = curBranch
             /\ manifest' # manifest => failed' = "readFileSync"]_vars

C5_Witness ==
  /\ cmd = "init"
  /\ failed = "git_push"
  /\ pc = "threw"
  /\ releaseBranch \in branches
  /\ curBranch = releaseBranch
  /\ Len(commits) = 1
  /\ releaseBranch \notin remote

(* C6: in init, when `gh version` or `jq --version` fails the error is      *)
(* logged and the process ends with exit code 1 before diff production      *)
(* starts and before any branch is created.                                 *)
C6_ProbeFailureHalts ==
  /\ ExitedWith("gh_version", FALSE) =>
       "error: gh CLI failed to run. Do you have it installed?" \in log
  /\ ExitedWith("jq_version", FALSE) =>
       "error: jq failed to run. Do you have it installed?" \in log
  /\ (ExitedWith("gh_version", FALSE) \/ ExitedWith("jq_version", FALSE)) =>
       /\ pc = "exited"
       /\ exitCode = 1
       /\ Invoked \cap DiffSteps = {}
       /\ tmpFiles = {}
       /\ failed \notin FsOps
       /\ Invoked \cap MutatingCommands = {}
       /\ NoBranchCreated

C6_Witness ==
  /\ ExitedWith("jq_version", FALSE)
  /\ ExitedWith("gh_auth", TRUE)
  /\ pc = "exited"
  /\ exitCode = 1

(* C7: in init a current branch other than main is only warned about: the   *)
(* position of the run is decided by the exits of the commands alone, the   *)
(* same way for every head, and a run started off main can reach            *)
(* pull-request creation.                                                   *)
PositionAfter(t) ==
  IF t = <<>> THEN InitSteps[1]
  ELSE LET e == t[Len(t)]
       IN IF Succeeded(e)
          THEN (IF Len(t) = Len(InitSteps) THEN "done" ELSE InitSteps[Len(t) + 1])
          ELSE IF e.step \in {"gh_version", "gh_auth", "jq_version"} THEN "exited"
          ELSE "threw"

C7_BaseBranchWarningOnly ==
  head # <<>> =>
    /\ (head # Main) <=> ("warn: Base banch is not main" \in log)
    /\ \/ pc = PositionAfter(trace)
       \/ pc = "threw" /\ failed \in FsOps /\ Succeeded(trace[Len(trace)])

C7_Witness ==
  /\ head = <<"topic">>
  /\ "warn: Base banch is not main" \in log
  /\ pc = "done"
  /\ exitCode = 0
  /\ \E p \in prs : p.head = releaseBranch

(* C8: for each of the four semver levels the commit init makes has the    *)
(* message "Increment <level> version to v<version>", <level> being the     *)
(* level passed in and <version> the manifest's version as it is after the  *)
(* bump, never the version before it; the pull-request title carries the    *)
(* same version.                                                            *)
C8_CommitMessageVersion ==
  /\ \A i \in DOMAIN commits :
       /\ args.semverlevel \in SemverLevels
       /\ commits[i].message =
            <<"Increment ", args.semverlevel, " version to v">>
            \o VersionString(manifest)
       /\ \A v0 \in StartVersions :
            manifest = SemverInc(v0, args.semverlevel) =>
              commits[i].message # <<"Increment ", args.semverlevel,
                                     " version to v">> \o VersionString(v0)
  /\ \A p \in prs :
       /\ p.title = <<"U+1F4E6 Release web-features@">> \o VersionString(manifest)
       /\ Len(commits) = 1
       /\ commits[1].message =
            <<"Increment ", args.semverlevel, " version to v">>
            \o SubSeq(p.title, 2, Len(p.title))

C8_Witness ==
  /\ args.semverlevel = "prerelease"
  /\ Len(commits) = 1
  /\ commits[1].message =
       <<"Increment ", "prerelease", " version to v", "1", ".", "9", ".", "4",
         "-", "0">>
  /\ \E p \in prs :
       p.title = <<"U+1F4E6 Release web-features@", "1", ".", "9", ".", "4",
                   "-", "0">>

(* C9: for every timestamp at which init runs the release branch name is    *)
(* "release-" followed by digits only: nothing is left of the ISO 8601      *)
(* timestamp but digits once - T : . Z are removed.                         *)
DigitSet == {DigitChars[i] : i \in DOMAIN DigitChars}

C9_BranchNameDigits ==
  releaseBranch # <<>> =>
    /\ Len(releaseBranch) > 1
    /\ releaseBranch[1] = "release-"
    /\ \A i \in 2..Len(releaseBranch) : releaseBranch[i] \in DigitSet

\* where the digits-only form does hold: clock readings in the years
\* 0000 to 9999 give "release-" and 17 digits
BranchNameDigitsUpTo9999 ==
  \A t \in ClockTimes :
    (t.year >= 0 /\ t.year <= 9999) =>
      LET b == ReleaseBranchName(t)
      IN /\ Len(b) = 18
         /\ b[1] = "release-"
         /\ \A i \in 2..Len(b) : b[i] \in DigitSet

(* C10: on every path of init the pull-request description template is     *)
(* only read: its contents never change, and the body handed to `gh pr      *)
(* create` is the template followed by the diff inside a diff code fence.   *)
C10_TemplateReadOnly ==
  /\ [][bodyFile' = bodyFile]_vars
  /\ [](\A p \in prs :
          p.body = bodyFile \o <<Fence, "diff", "\n">> \o diff \o <<"\n", Fence>>)

C10_Witness ==
  /\ diff # <<>>
  /\ bodyFile = <<"No trailing newline">>
  /\ \E p \in prs :
       /\ Len(p.body) = Len(bodyFile) + Len(diff) + 5
       /\ SubSeq(p.body, 1, Len(bodyFile)) = bodyFile

(* C11: within one run of init the release branch name is computed once;   *)
(* the branch created, the branch checked out, the branch pushed and the    *)
(* pull request's head are all that one name; the version-bump commit is    *)
(* made only while that branch is checked out, so the base branch captured  *)
(* in preflight receives no commit from the run.                            *)
C11_OneReleaseBranch ==
  /\ [](/\ branches \ StartBranches \subseteq {releaseBranch}
        /\ remote \ {Main} \subseteq {releaseBranch}
        /\ \A p \in prs : p.head = releaseBranch
        /\ curBranch \in StartBranches \/ curBranch = releaseBranch
        /\ (branches # StartBranches \/ remote # {Main} \/ prs # {}
            \/ curBranch \notin StartBranches) =>
             (releaseBranch # <<>> /\ releaseBranch \notin StartBranches)
        /\ head # <<>> => (curBranch = head \/ curBranch = releaseBranch)
        /\ \A i \in DOMAIN commits :
             /\ commits[i].branch = releaseBranch
             /\ commits[i].branch # head
             /\ curBranch = releaseBranch
             /\ releaseBranch \in branches)
  /\ [][/\ releaseBranch # <<>> => releaseBranch' = releaseBranch
        /\ head # <<>> => head' = head
        /\ commits' # commits => curBranch = releaseBranch]_vars

C11_Witness ==
  /\ head = Main
  /\ pc = "done"
  /\ Len(commits) = 1
  /\ commits[1].branch = releaseBranch
  /\ releaseBranch \in branches
  /\ releaseBranch \in remote
  /\ curBranch = releaseBranch
  /\ \E p \in prs : p.head = releaseBranch /\ p.base = head

====
